---- MODULE Spec2Model ----
(***************************************************************************)
(* The stack persistence engine of stgit (src/stack.rs): the in-memory     *)
(* Stack, its JSON codec, Stack::commit with its parent set and fanout     *)
(* reduction, initialize and from_branch, over a content-addressed object  *)
(* store with named references.                                            *)
(***************************************************************************)
EXTENDS Integers, Sequences, FiniteSets, TLC

VARIABLES
    objects,    \* the object database: oid i names objects[i]
    refs,       \* reference name -> oid, 0 when the reference does not exist
    HEAD,       \* symbolic (a branch reference) or detached (a commit oid)
    pc,         \* position of the running call: "idle" or a step of Stack::commit
    frame,      \* arguments and locals of the running Stack::commit
    result,     \* what the last finished call returned
    input,      \* codec specification: the document handed to from_stack_json
    decoded     \* codec specification: what from_stack_json returned

vars == <<objects, refs, HEAD, pc, frame, result, input, decoded>>

(***************************************************************************)
(* Bounds.                                                                 *)
(***************************************************************************)
MaxApplied == 2     \* patch commits that form a chain on the branch tip
MaxLoose == 1       \* unapplied patches, and hidden patches, of a small stack
MaxWide == 16       \* unapplied patches of the widest stack
MaxNew == 6         \* a writing call starts while at most this many objects were added
HexLen == 2         \* hex digits of an object id
MaxDocNames == 2    \* patch names a document of the codec specification draws on

MAX_PARENTS == 16

(***************************************************************************)
(* Object ids and their hex form.  A character is a number: 0..15 are the  *)
(* hex digits, NonHex is a character that is no hex digit.                 *)
(***************************************************************************)
HexDigits == 0..15
NonHex == Cardinality(HexDigits)

RECURSIVE Pow16(_)
Pow16(n) == IF n = 0 THEN 1 ELSE 16 * Pow16(n - 1)

\* Oid::to_string: HexLen digits, most significant first
OidToString(oid) ==
    [i \in 1..HexLen |-> (oid \div Pow16(HexLen - i)) % 16]

RECURSIVE HexValue(_, _)
HexValue(s, i) ==
    IF i > Len(s) THEN 0
    ELSE s[i] * Pow16(HexLen - i) + HexValue(s, i + 1)

\* Oid::from_str: an error for an empty string, a string longer than an id
\* or a character that is no hex digit; a short string is padded with zeros
OidFromStr(s) ==
    IF Len(s) = 0 \/ Len(s) > HexLen \/ \E i \in 1..Len(s) : s[i] \notin HexDigits
    THEN [ok |-> FALSE, oid |-> 0]
    ELSE [ok |-> TRUE, oid |-> HexValue(s, 1)]

Range(q) == {q[i] : i \in 1..Len(q)}

NoOid == [some |-> FALSE, oid |-> 0]
SomeOid(o) == [some |-> TRUE, oid |-> o]

(***************************************************************************)
(* Patch names.                                                            *)
(***************************************************************************)
PatchNames ==
    << "p01", "p02", "p03", "p04", "p05", "p06", "p07", "p08", "p09", "p10",
       "p11", "p12", "p13", "p14", "p15", "p16", "p17", "p18", "p19", "p20",
       "p21", "p22", "p23", "p24", "p25", "p26", "p27", "p28", "p29", "p30" >>

NumPatches == MaxApplied + MaxWide

EmptyTable == [n \in {} |-> 0]

(***************************************************************************)
(* The Stack value.                                                        *)
(***************************************************************************)
\* Stack::new
StackNew(head) ==
    [prev |-> NoOid, head |-> head, applied |-> <<>>, unapplied |-> <<>>,
     hidden |-> <<>>, patches |-> EmptyTable]

\* Stack::all_patches
all_patches(s) == s.applied \o s.unapplied \o s.hidden

\* Stack::top
top(s) ==
    IF Len(s.applied) > 0 THEN s.patches[s.applied[Len(s.applied)]] ELSE s.head

(***************************************************************************)
(* The codec.  A document is the JSON value of stack.json; its version is  *)
(* a JSON string or a JSON integer, its ids are strings.                   *)
(***************************************************************************)
\* impl Serialize for Stack
Serialize(s) ==
    [version |-> [isString |-> TRUE, num |-> 5],
     prev |-> IF s.prev.some
              THEN [null |-> FALSE, str |-> OidToString(s.prev.oid)]
              ELSE [null |-> TRUE, str |-> <<>>],
     head |-> OidToString(s.head),
     applied |-> s.applied,
     unapplied |-> s.unapplied,
     hidden |-> s.hidden,
     patches |-> [n \in DOMAIN s.patches |->
                     [oid |-> OidToString(s.patches[n])]]]

Ok(s) == [kind |-> "ok", error |-> "", stack |-> s]
Err(e) == [kind |-> "err", error |-> e, stack |-> StackNew(0)]
Panic == [kind |-> "panic", error |-> "unwrap", stack |-> StackNew(0)]

\* impl Deserialize for Stack
Deserialize(doc) ==
    IF doc.version.isString THEN Err("JsonError")
    ELSE IF doc.version.num # 5 THEN Err("JsonError")
    ELSE IF ~doc.prev.null /\ ~OidFromStr(doc.prev.str).ok THEN Panic
    ELSE IF ~OidFromStr(doc.head).ok THEN Panic
    ELSE IF \E n \in DOMAIN doc.patches : ~OidFromStr(doc.patches[n].oid).ok
         THEN Panic
    ELSE Ok([prev |-> IF doc.prev.null THEN NoOid
                      ELSE SomeOid(OidFromStr(doc.prev.str).oid),
             head |-> OidFromStr(doc.head).oid,
             applied |-> doc.applied,
             unapplied |-> doc.unapplied,
             hidden |-> doc.hidden,
             patches |-> [n \in DOMAIN doc.patches |->
                             OidFromStr(doc.patches[n].oid).oid]])

\* Stack::from_stack_json, on the content of a blob
from_stack_json(blob) ==
    IF blob.kind # "json" THEN Err("JsonError") ELSE Deserialize(blob.doc)

(***************************************************************************)
(* The object database.  Objects are content-addressed: writing an object  *)
(* that is already stored returns its id.  The signature of the commits    *)
(* Stack::commit writes (repo.signature()) is Sig.                         *)
(***************************************************************************)
Sig == [name |-> "committer", time |-> 0]

Blob(text) == [type |-> "blob", kind |-> "text", text |-> text]
JsonBlob(doc) == [type |-> "blob", kind |-> "json", doc |-> doc]
MetaBlob(bottom, top_tree, author) ==
    [type |-> "blob", kind |-> "meta", bottom |-> bottom, top |-> top_tree,
     author |-> author.name, date |-> author.time]
Tree(entries) == [type |-> "tree", entries |-> entries]
Commit(tree, parents, message, sig) ==
    [type |-> "commit", tree |-> tree, parents |-> parents,
     message |-> message, author |-> sig]

\* the repository before any stack operation: a file, the trees and commits
\* of the branches, and the patch commits
BaseLayout == <<"file", "treeA", "treeB", "commitA", "commitB">>
BaseId(k) == CHOOSE i \in 1..Len(BaseLayout) : BaseLayout[i] = k
FileBlob == BaseId("file")
TreeA == BaseId("treeA")
TreeB == BaseId("treeB")
CommitA == BaseId("commitA")   \* the root commit, tip of branch dev
CommitB == BaseId("commitB")   \* its child, tip of branch master; the patches sit on it
NumBase == Len(BaseLayout) + NumPatches

\* the commit of patch i: the first MaxApplied patches form a chain on
\* CommitB, the others are single commits on CommitB
PatchCommit(i) == CommitB + i
PatchParent(i) == IF i = 1 \/ i > MaxApplied THEN CommitB ELSE PatchCommit(i - 1)

BaseObjects ==
    << Blob(<<0>>), Tree(EmptyTable), Tree([n \in {"file"} |-> FileBlob]),
       Commit(TreeA, <<>>, "A", Sig),
       Commit(TreeB, <<CommitA>>, "B", Sig) >>
    \o [i \in 1..NumPatches |->
          Commit(TreeB, <<PatchParent(i)>>, PatchNames[i],
                 [name |-> PatchNames[i], time |-> i])]

IsObject(objs, oid, type) == oid \in 1..Len(objs) /\ objs[oid].type = type

Stored(objs, o) == \E i \in 1..Len(objs) : objs[i] = o

\* repo.blob, treebuilder.write, repo.commit(None, ...): the store after the
\* write and the id of the object
Write(objs, o) ==
    IF Stored(objs, o)
    THEN [objs |-> objs, oid |-> CHOOSE i \in 1..Len(objs) : objs[i] = o]
    ELSE [objs |-> Append(objs, o), oid |-> Len(objs) + 1]

\* the ids an object refers to: a commit its tree and parents, a tree its entries
Refers(objs, oid) ==
    IF objs[oid].type = "commit"
    THEN {objs[oid].tree} \cup Range(objs[oid].parents)
    ELSE IF objs[oid].type = "tree"
    THEN {objs[oid].entries[n] : n \in DOMAIN objs[oid].entries}
    ELSE {}

\* the commits reachable from a set of commits by parent edges
RECURSIVE Ancestors(_, _)
Ancestors(objs, S) ==
    LET T == S \cup UNION {Range(objs[c].parents) : c \in S}
    IN  IF T = S THEN S ELSE Ancestors(objs, T)

\* the objects reachable from a set of objects
RECURSIVE Reachable(_, _)
Reachable(objs, S) ==
    LET T == S \cup UNION {Refers(objs, o) : o \in S}
    IN  IF T = S THEN S ELSE Reachable(objs, T)

(***************************************************************************)
(* References.                                                             *)
(***************************************************************************)
Branches == {"master", "dev"}
ShortNames == Branches \cup {"gone"}
RefNames == {<<"refs", k, b>> : k \in {"heads", "stacks"}, b \in ShortNames}

NoName == [some |-> FALSE, name |-> ""]
SomeName(n) == [some |-> TRUE, name |-> n]
NoRef == [some |-> FALSE, name |-> <<>>]
SomeRef(r) == [some |-> TRUE, name |-> r]

\* stack_refname_from_branch_shorthand
stack_refname_from_branch_shorthand(branch_shorthand) ==
    <<"refs", "stacks", branch_shorthand>>

\* Reference::shorthand of a branch reference
shorthand(refname) == refname[3]

\* repo.head()?.peel_to_commit()?.id(): 0 when HEAD names an unborn branch
HeadCommit == IF HEAD.symbolic THEN refs[HEAD.name] ELSE HEAD.oid

\* get_branch_ref
get_branch_ref(branch_name) ==
    IF branch_name.some
    THEN LET r == <<"refs", "heads", branch_name.name>>
         IN  IF refs[r] # 0 THEN [ok |-> TRUE, error |-> "", name |-> r]
             ELSE [ok |-> FALSE, error |-> "GitError", name |-> r]
    ELSE IF HEAD.symbolic
         THEN IF refs[HEAD.name] # 0
              THEN [ok |-> TRUE, error |-> "", name |-> HEAD.name]
              ELSE [ok |-> FALSE, error |-> "GitError", name |-> HEAD.name]
         ELSE [ok |-> FALSE, error |-> "HeadDetached", name |-> <<>>]

\* get_stack_ref
get_stack_ref(branch_name) ==
    LET br == get_branch_ref(branch_name)
        sr == stack_refname_from_branch_shorthand(shorthand(br.name))
    IN  IF ~br.ok THEN br
        ELSE IF refs[sr] # 0 THEN [ok |-> TRUE, error |-> "", name |-> sr]
        ELSE [ok |-> FALSE, error |-> "StGitStackNotInitialized", name |-> sr]

\* Stack::from_tree
from_tree(objs, tree) ==
    IF "stack.json" \notin DOMAIN objs[tree].entries
    THEN Err("StGitStackMetadataNotFound")
    ELSE LET b == objs[tree].entries["stack.json"]
         IN  IF ~IsObject(objs, b, "blob") THEN Err("GitError")
             ELSE from_stack_json(objs[b])

(***************************************************************************)
(* Stack::commit, its helpers first.  f is the frame of the call: the      *)
(* snapshot (self), the arguments and the locals.                          *)
(***************************************************************************)
\* Tree::get_path("patches/<patch_name>"): the entry's id, 0 when not found
get_path(objs, tree, patch_name) ==
    IF "patches" \notin DOMAIN objs[tree].entries THEN 0
    ELSE LET sub == objs[tree].entries["patches"]
         IN  IF ~IsObject(objs, sub, "tree") THEN 0
             ELSE IF patch_name \notin DOMAIN objs[sub].entries THEN 0
             ELSE objs[sub].entries[patch_name]

\* the test of Stack::make_patch_meta: the previous snapshot has this patch
\* with this commit id
SamePatchInPrev(f, patch_name, oid) ==
    /\ f.has_prev
    /\ \E i \in 1..Len(all_patches(f.prev_state)) :
          /\ all_patches(f.prev_state)[i] = patch_name
          /\ f.prev_state.patches[patch_name] = oid

\* Stack::make_patch_meta
make_patch_meta(objs, f, patch_name, oid) ==
    LET reused == IF SamePatchInPrev(f, patch_name, oid)
                  THEN get_path(objs, f.prev_tree, patch_name) ELSE 0
    IN  IF reused # 0 THEN [ok |-> TRUE, objs |-> objs, oid |-> reused]
        ELSE IF ~IsObject(objs, oid, "commit")
             THEN [ok |-> FALSE, objs |-> objs, oid |-> 0]
        ELSE IF Len(objs[oid].parents) = 0
                \/ ~IsObject(objs, objs[oid].parents[1], "commit")
             THEN [ok |-> FALSE, objs |-> objs, oid |-> 0]
        ELSE LET parent == objs[objs[oid].parents[1]]
                 w == Write(objs, MetaBlob(parent.tree, objs[oid].tree,
                                           objs[oid].author))
             IN  [ok |-> TRUE, objs |-> w.objs, oid |-> w.oid]

\* the loop of Stack::make_patches_tree: one entry per name, a later insert
\* of the same name replaces the earlier one; stops at the first error
RECURSIVE PatchEntries(_, _, _, _)
PatchEntries(objs, f, names, entries) ==
    IF Len(names) = 0 THEN [ok |-> TRUE, objs |-> objs, entries |-> entries]
    ELSE LET m == make_patch_meta(objs, f, Head(names),
                                  f.stack.patches[Head(names)])
         IN  IF ~m.ok THEN [ok |-> FALSE, objs |-> m.objs, entries |-> entries]
             ELSE PatchEntries(m.objs, f, Tail(names),
                               (Head(names) :> m.oid) @@ entries)

\* Stack::make_patches_tree
make_patches_tree(objs, f) ==
    LET e == PatchEntries(objs, f, all_patches(f.stack), EmptyTable)
        w == Write(e.objs, Tree(e.entries))
    IN  IF ~e.ok THEN [ok |-> FALSE, objs |-> e.objs, oid |-> 0]
        ELSE [ok |-> TRUE, objs |-> w.objs, oid |-> w.oid]

\* Stack::make_tree: the stack.json blob is written first
make_tree(objs, f) ==
    LET j == Write(objs, JsonBlob(Serialize(f.stack)))
        p == make_patches_tree(j.objs, f)
        w == Write(p.objs, Tree(("stack.json" :> j.oid) @@ ("patches" :> p.oid)))
    IN  IF ~p.ok THEN [ok |-> FALSE, objs |-> p.objs, oid |-> 0]
        ELSE [ok |-> TRUE, objs |-> w.objs, oid |-> w.oid]

PatchOids(s, q) == {s.patches[q[i]] : i \in 1..Len(q)}

\* the parent set without the loop over the hidden patches
FullParentSet_NoHidden(s, has_prev, prev_state) ==
    LET own == {s.head, top(s)} \cup PatchOids(s, s.unapplied)
    IN  IF s.prev.some
        THEN (own \cup {s.prev.oid})
                 \ PatchOids(prev_state, all_patches(prev_state))
        ELSE own

\* the parent set of Stack::commit before fanout reduction
FullParentSet(s, has_prev, prev_state) ==
    LET own == {s.head, top(s)} \cup PatchOids(s, s.unapplied)
                   \cup PatchOids(s, s.hidden)
    IN  IF s.prev.some
        THEN (own \cup {s.prev.oid})
                 \ PatchOids(prev_state, all_patches(prev_state))
        ELSE own

\* the update_ref argument of the repo.commit calls that write the simplified
\* commit and the grouping commits: None
SimplifiedUpdateRef(f) == NoRef
\* a grouping commit written with the reference of the call
GroupUpdateRef_Named(f) == f.update_ref
GroupUpdateRef(f) == NoRef

\* repo.commit(update_ref, ...): the references after the commit oid is written
RefsAfterCommit(rs, update_ref, oid) ==
    IF update_ref.some THEN [rs EXCEPT ![update_ref.name] = oid] ELSE rs

\* the parents of the simplified commit: Ok with the list, or an error
SimplifiedParents(objs, s) ==
    IF ~s.prev.some THEN [ok |-> TRUE, parents |-> <<>>]
    ELSE IF ~IsObject(objs, s.prev.oid, "commit")
         THEN [ok |-> FALSE, parents |-> <<>>]
    ELSE IF Len(objs[s.prev.oid].parents) = 0
            \/ ~IsObject(objs, objs[s.prev.oid].parents[1], "commit")
         THEN [ok |-> FALSE, parents |-> <<>>]
    ELSE [ok |-> TRUE, parents |-> <<objs[s.prev.oid].parents[1]>>]

RECURSIVE SetToSeq(_)
SetToSeq(S) ==
    IF S = {} THEN <<>>
    ELSE LET m == CHOOSE x \in S : \A y \in S : x <= y
         IN  <<m>> \o SetToSeq(S \ {m})

\* the subsets of S with k elements
RECURSIVE KSubsets(_, _)
KSubsets(S, k) ==
    IF k = 0 THEN {{}}
    ELSE UNION {{T \cup {x} : T \in KSubsets({y \in S : y > x}, k - 1)} : x \in S}

\* what drain(len - n .. len) may take from the unordered part of parent_oids:
\* any n of its ids (the others stay in the vector)
Drained(S, n) == {S \ L : L \in KSubsets(S, Cardinality(S) - n)}

\* parent_oids: the iteration order of the hash set is arbitrary, so the
\* vector is an unordered part (parent_set) followed by the ids pushed by
\* the loop (parent_tail)
ParentCount(f) == Cardinality(f.parent_set) + Len(f.parent_tail)

(***************************************************************************)
(* The data-model invariants of a snapshot.                                *)
(***************************************************************************)
NoDuplicates(q) == \A i, j \in 1..Len(q) : q[i] = q[j] => i = j

\* invariant 1: the queues are pairwise disjoint and cover the patch table
QueuesCoverTable(s) ==
    /\ NoDuplicates(all_patches(s))
    /\ Range(all_patches(s)) = DOMAIN s.patches

\* invariant 2: every patch commit has exactly one parent
SingleParent(objs, s) ==
    \A n \in DOMAIN s.patches :
        IsObject(objs, s.patches[n], "commit") /\ Len(objs[s.patches[n]].parents) = 1

\* invariant 4: the parent of an applied patch is the tip below it
AppliedChained(objs, s) ==
    \A i \in 1..Len(s.applied) :
        objs[s.patches[s.applied[i]]].parents[1] =
            (IF i = 1 THEN s.head ELSE s.patches[s.applied[i - 1]])

SnapshotInvariants(objs, s) ==
    /\ QueuesCoverTable(s)
    /\ IsObject(objs, s.head, "commit")
    /\ SingleParent(objs, s)
    /\ AppliedChained(objs, s)

(***************************************************************************)
(* The snapshots the command layer hands to Stack::commit.                 *)
(***************************************************************************)
NameIndex(n) == CHOOSE i \in 1..Len(PatchNames) : PatchNames[i] = n
Chain(a) == [i \in 1..a |-> PatchNames[i]]
Loose(from, n) == [i \in 1..n |-> PatchNames[MaxApplied + from + i - 1]]
Table(names) == [n \in Range(names) |-> PatchCommit(NameIndex(n))]

StackOf(prev, applied, unapplied, hidden) ==
    [prev |-> prev, head |-> CommitB, applied |-> applied,
     unapplied |-> unapplied, hidden |-> hidden,
     patches |-> Table(applied \o unapplied \o hidden)]

\* small stacks of every shape, and wide stacks whose parent set is around
\* MAX_PARENTS
Shapes ==
    {<<a, k, k>> : a \in 0..MaxApplied, k \in 0..MaxLoose}
        \cup {<<0, u, 0>> : u \in (MAX_PARENTS - 1)..MaxWide}

\* prev as the command layer sets it: none, or the commit a stack reference
\* names
PrevChoices ==
    {NoOid} \cup {SomeOid(refs[r]) : r \in {x \in RefNames : refs[x] # 0 /\ x[2] = "stacks"}}

CallerStacks ==
    {StackOf(p, Chain(sh[1]), Loose(1, sh[2]), Loose(sh[2] + 1, sh[3])) :
        p \in PrevChoices, sh \in Shapes}
    \* two applied patches that are not stacked on each other
    \cup {StackOf(p, Loose(1, 2), <<>>, <<>>) : p \in PrevChoices}

UpdateRefChoices ==
    {NoRef, SomeRef(stack_refname_from_branch_shorthand("master"))}

(***************************************************************************)
(* The state machine.                                                      *)
(***************************************************************************)
NoResult ==
    [kind |-> "none", op |-> "", error |-> "", oid |-> 0,
     stack |-> StackNew(0), branch |-> NoName]

EmptyFrame ==
    [op |-> "", branch |-> NoName, stack |-> StackNew(0), update_ref |-> NoRef,
     message |-> "", has_prev |-> FALSE, prev_state |-> StackNew(0),
     prev_tree |-> 0, state_tree |-> 0, simplified_parent |-> 0,
     parent_set |-> {}, parent_tail |-> <<>>,
     refs0 |-> [r \in RefNames |-> 0], objects0 |-> 0]

NoDecode == [kind |-> "none", error |-> "", stack |-> StackNew(0)]
NoInput == [doc |-> Serialize(StackNew(0)), encoded |-> FALSE, of |-> StackNew(0)]

BaseRefs ==
    [r \in RefNames |->
        IF r = <<"refs", "heads", "master">> THEN CommitB
        ELSE IF r = <<"refs", "heads", "dev">> THEN CommitA
        ELSE 0]

HeadChoices ==
    {[symbolic |-> TRUE, name |-> <<"refs", "heads", b>>, oid |-> 0] : b \in Branches}
        \cup {[symbolic |-> FALSE, name |-> <<"HEAD">>, oid |-> CommitB]}

Init ==
    /\ objects = BaseObjects
    /\ refs = BaseRefs
    /\ HEAD \in HeadChoices
    /\ pc = "idle"
    /\ frame = EmptyFrame
    /\ result = NoResult
    /\ input = NoInput
    /\ decoded = NoDecode

\* Stack::commit returns; the frame keeps what the call was given and did
Return(kind, error, oid) ==
    /\ pc' = "idle"
    /\ result' = [kind |-> kind, op |-> frame.op, error |-> error, oid |-> oid,
                  stack |-> frame.stack, branch |-> frame.branch]
    /\ UNCHANGED frame

ReturnErr(e) == Return("err", e, 0)

\* the objects no reference reaches
Unreferenced ==
    (1..Len(objects)) \ Reachable(objects, {refs[r] : r \in RefNames} \ {0})

\* The model follows writes into a repository that holds no unreferenced
\* object and at most MaxNew added objects.
CanEnter ==
    /\ Len(objects) - NumBase <= MaxNew
    /\ Unreferenced \subseteq 1..NumBase

\* entry to Stack::commit
Enter(op, branch, s, update_ref, message) ==
    /\ pc' = "load_prev"
    /\ frame' = [EmptyFrame EXCEPT !.op = op, !.branch = branch, !.stack = s,
                                   !.update_ref = update_ref,
                                   !.message = message, !.refs0 = refs,
                                   !.objects0 = Len(objects)]
    /\ result' = NoResult

\* the command layer calls Stack::commit
CommitCall(s, update_ref) ==
    /\ Enter("commit", NoName, s, update_ref, "update")
    /\ UNCHANGED <<objects, refs, HEAD, input, decoded>>

\* Stack::commit, the previous snapshot
LoadPrev ==
    /\ pc = "load_prev"
    /\ IF ~frame.stack.prev.some
       THEN pc' = "make_tree" /\ UNCHANGED <<frame, result>>
       ELSE IF ~IsObject(objects, frame.stack.prev.oid, "tree")
            THEN ReturnErr("GitError")
       ELSE LET r == from_tree(objects, frame.stack.prev.oid)
            IN  IF r.kind = "ok"
                THEN /\ pc' = "make_tree"
                     /\ frame' = [frame EXCEPT !.has_prev = TRUE,
                                               !.prev_state = r.stack,
                                               !.prev_tree = frame.stack.prev.oid]
                     /\ UNCHANGED result
                ELSE Return(r.kind, r.error, 0)
    /\ UNCHANGED <<objects, refs, HEAD, input, decoded>>

\* Stack::commit, the tree of the snapshot
MakeTree ==
    /\ pc = "make_tree"
    /\ LET t == make_tree(objects, frame)
       IN  /\ objects' = t.objs
           /\ IF t.ok
              THEN /\ pc' = "simplified"
                   /\ frame' = [frame EXCEPT !.state_tree = t.oid]
                   /\ UNCHANGED result
              ELSE ReturnErr("GitError")
    /\ UNCHANGED <<refs, HEAD, input, decoded>>

\* Stack::commit, the simplified commit and the parent set
WriteSimplified ==
    /\ pc = "simplified"
    /\ LET sp == SimplifiedParents(objects, frame.stack)
           w == Write(objects, Commit(frame.state_tree, sp.parents,
                                      frame.message, Sig))
       IN  IF sp.ok
           THEN /\ objects' = w.objs
                /\ refs' = RefsAfterCommit(refs, SimplifiedUpdateRef(frame), w.oid)
                /\ pc' = "parents"
                /\ frame' = [frame EXCEPT
                       !.simplified_parent = w.oid,
                       !.parent_set = FullParentSet(frame.stack, frame.has_prev,
                                                    frame.prev_state)]
                /\ UNCHANGED result
           ELSE ReturnErr("GitError") /\ UNCHANGED <<objects, refs>>
    /\ UNCHANGED <<HEAD, input, decoded>>

\* Stack::commit, one round of the fanout reduction: the last MAX_PARENTS
\* ids of parent_oids become the parents of a grouping commit
Group ==
    /\ pc = "parents"
    /\ ParentCount(frame) > MAX_PARENTS
    /\ \E T \in Drained(frame.parent_set,
                          MAX_PARENTS - Len(frame.parent_tail)) :
          /\ LET parent_group == SetToSeq(T) \o frame.parent_tail
                 w == Write(objects, Commit(frame.state_tree, parent_group,
                                            "parent grouping", Sig))
             IN  IF \A i \in 1..Len(parent_group) :
                        IsObject(objects, parent_group[i], "commit")
                 THEN /\ objects' = w.objs
                      /\ refs' = RefsAfterCommit(refs, GroupUpdateRef(frame), w.oid)
                      /\ pc' = "parents"
                      /\ frame' = [frame EXCEPT
                             !.parent_set = frame.parent_set \ T,
                             !.parent_tail = <<w.oid>>]
                      /\ UNCHANGED result
                 ELSE ReturnErr("GitError") /\ UNCHANGED <<objects, refs>>
    /\ UNCHANGED <<HEAD, input, decoded>>

\* the simplified commit pushed after the other parents
FinalParents_SimplifiedLast(f) ==
    SetToSeq(f.parent_set) \o f.parent_tail \o <<f.simplified_parent>>

\* the parents of the snapshot commit
FinalParents(f) ==
    <<f.simplified_parent>> \o SetToSeq(f.parent_set) \o f.parent_tail

\* Stack::commit, the snapshot commit and the reference
WriteFinal ==
    /\ pc = "parents"
    /\ ParentCount(frame) <= MAX_PARENTS
    /\ LET parent_commits == FinalParents(frame)
           w == Write(objects, Commit(frame.state_tree, parent_commits,
                                      frame.message, Sig))
       IN  IF \A i \in 1..Len(parent_commits) :
                  IsObject(objects, parent_commits[i], "commit")
           THEN /\ objects' = w.objs
                /\ refs' = RefsAfterCommit(refs, frame.update_ref, w.oid)
                /\ Return("ok", "", w.oid)
           ELSE ReturnErr("GitError") /\ UNCHANGED <<objects, refs>>
    /\ UNCHANGED <<HEAD, input, decoded>>

\* Stack::commit, the last repo.commit fails at the reference: the commit
\* object is written, the reference is not moved
RefUpdateFail ==
    /\ pc = "parents"
    /\ ParentCount(frame) <= MAX_PARENTS
    /\ frame.update_ref.some
    /\ \A i \in 1..Len(FinalParents(frame)) :
          IsObject(objects, FinalParents(frame)[i], "commit")
    /\ objects' = Write(objects, Commit(frame.state_tree, FinalParents(frame),
                                        frame.message, Sig)).objs
    /\ ReturnErr("ObjectStoreError")
    /\ UNCHANGED <<refs, HEAD, input, decoded>>

\* an operation of the object store fails: the ? of Stack::commit returns it
StoreFail ==
    /\ pc \in {"load_prev", "make_tree", "simplified", "parents"}
    /\ ReturnErr("ObjectStoreError")
    /\ UNCHANGED <<objects, refs, HEAD, input, decoded>>

\* what a call that ends at once returns
Returned(op, branch, kind, error, s) ==
    /\ pc' = "idle"
    /\ frame' = EmptyFrame
    /\ result' = [kind |-> kind, op |-> op, error |-> error, oid |-> 0,
                  stack |-> s, branch |-> branch]

\* initialize without the test for an existing stack reference
StackExists_Never(stack_refname) == FALSE

\* repo.find_reference(&stack_refname).is_ok()
StackExists(stack_refname) == refs[stack_refname] # 0

\* initialize, up to its call of Stack::commit
Initialize(branch_name) ==
    /\ pc = "idle"
    /\ LET branch_ref == get_branch_ref(branch_name)
           branch_shorthand == shorthand(branch_ref.name)
           stack_refname == stack_refname_from_branch_shorthand(branch_shorthand)
       IN  IF ~branch_ref.ok
           THEN Returned("initialize", branch_name, "err", branch_ref.error, StackNew(0))
           ELSE IF StackExists(stack_refname)
           THEN Returned("initialize", branch_name, "err",
                         "StGitStackAlreadyInitialized", StackNew(0))
           ELSE IF HeadCommit = 0
           THEN Returned("initialize", branch_name, "err", "GitError", StackNew(0))
           ELSE /\ CanEnter
                /\ Enter("initialize", branch_name, StackNew(HeadCommit),
                         SomeRef(stack_refname), "initialize")
    /\ UNCHANGED <<objects, refs, HEAD, input, decoded>>

\* Stack::from_branch
FromBranch(branch_name) ==
    /\ pc = "idle"
    /\ LET stack_ref == get_stack_ref(branch_name)
           r == from_tree(objects, objects[refs[stack_ref.name]].tree)
       IN  IF ~stack_ref.ok
           THEN Returned("from_branch", branch_name, "err", stack_ref.error, StackNew(0))
           ELSE Returned("from_branch", branch_name, r.kind, r.error, r.stack)
    /\ UNCHANGED <<objects, refs, HEAD, input, decoded>>

BranchArgs == {NoName} \cup {SomeName(n) : n \in ShortNames}

Next ==
    \/ /\ pc = "idle"
       /\ CanEnter
       /\ \E s \in CallerStacks, u \in UpdateRefChoices : CommitCall(s, u)
    \/ \E b \in BranchArgs : Initialize(b)
    \/ \E b \in BranchArgs : FromBranch(b)
    \/ LoadPrev
    \/ MakeTree
    \/ WriteSimplified
    \/ Group
    \/ WriteFinal
    \/ RefUpdateFail
    \/ StoreFail

Spec == Init /\ [][Next]_vars

(***************************************************************************)
(* The codec on its own: from_stack_json applied to documents written by   *)
(* hand or by another tool, and to the documents Serialize produces.       *)
(***************************************************************************)
DocNames == {PatchNames[i] : i \in 1..MaxDocNames}
DocQueues == {<<>>} \cup {<<n>> : n \in DocNames}

BadHex == {<<>>, <<NonHex>>, [i \in 1..HexLen |-> IF i = 1 THEN 0 ELSE NonHex],
           [i \in 1..(HexLen + 1) |-> 0]}
ShortHex == {<<1>>}

DocVersions ==
    {[isString |-> FALSE, num |-> 5], [isString |-> FALSE, num |-> 4],
     [isString |-> TRUE, num |-> 5]}

DocTables ==
    UNION {[D -> {[oid |-> h] : h \in {OidToString(PatchCommit(1)), <<NonHex>>}}] :
              D \in SUBSET DocNames}

HandMadeDocs ==
    [version : DocVersions,
     prev : {[null |-> TRUE, str |-> <<>>]}
                \cup {[null |-> FALSE, str |-> h] : h \in {OidToString(CommitA), <<NonHex>>}},
     head : {OidToString(CommitB)} \cup ShortHex \cup BadHex,
     applied : DocQueues, unapplied : DocQueues, hidden : DocQueues,
     patches : DocTables]

\* snapshots whose queues are pairwise disjoint and cover the patch table
CodecStacks ==
    {s \in [prev : {NoOid, SomeOid(CommitA)},
            head : {CommitB, Pow16(HexLen) - 1},
            applied : DocQueues, unapplied : DocQueues, hidden : DocQueues,
            patches : UNION {[D -> {PatchCommit(1), PatchCommit(2)}] :
                                D \in SUBSET DocNames}] :
        QueuesCoverTable(s)}

InitCodec ==
    /\ objects = BaseObjects
    /\ refs = BaseRefs
    /\ HEAD = [symbolic |-> TRUE, name |-> <<"refs", "heads", "master">>, oid |-> 0]
    /\ pc = "idle"
    /\ frame = EmptyFrame
    /\ result = NoResult
    /\ input \in {[doc |-> d, encoded |-> FALSE, of |-> StackNew(0)] : d \in HandMadeDocs}
                  \cup {[doc |-> Serialize(s), encoded |-> TRUE, of |-> s] : s \in CodecStacks}
    /\ decoded = NoDecode

\* from_stack_json on the bytes of the document
Decode ==
    /\ decoded.kind = "none"
    /\ decoded' = from_stack_json(JsonBlob(input.doc))
    /\ UNCHANGED <<objects, refs, HEAD, pc, frame, result, input>>

\* the snapshot that was decoded is serialized again
Encode ==
    /\ decoded.kind = "ok"
    /\ input' = [doc |-> Serialize(decoded.stack), encoded |-> TRUE,
                 of |-> decoded.stack]
    /\ decoded' = NoDecode
    /\ UNCHANGED <<objects, refs, HEAD, pc, frame, result>>

NextCodec == Decode \/ Encode

SpecCodec == InitCodec /\ [][NextCodec]_vars

(***************************************************************************)
(* Properties.                                                             *)
(***************************************************************************)
StackRefs == {r \in RefNames : r[2] = "stacks"}

\* the snapshot commits the stack references of rs name
SnapshotCommits(rs) == {rs[r] : r \in StackRefs} \ {0}

\* Stack::commit, called directly or by initialize, returned an id
CommitReturned ==
    pc = "idle" /\ result.kind = "ok" /\ result.op \in {"commit", "initialize"}

\* Stack::commit, called directly, returned for another reason than a
\* failure of the object store
CommitEnded ==
    /\ pc = "idle" /\ result.op = "commit" /\ result.kind # "none"
    /\ result.error # "ObjectStoreError"

\* the call was given a snapshot whose prev is the snapshot commit of a stack
\* reference, and whose patch commits exist
ChainedCall ==
    /\ frame.stack.prev.some
    /\ frame.stack.prev.oid \in SnapshotCommits(frame.refs0)
    /\ SingleParent(objects, frame.stack)

\* the stack.json document in the tree of snapshot commit c
StackJson(objs, c) == objs[objs[objs[c].tree].entries["stack.json"]].doc

\* C1: after Stack::commit(S) returns C for a snapshot S that satisfies the
\* data-model invariants (and whose prev, if set, is a commit written by an
\* earlier Stack::commit), every commit in S.patches is an ancestor of C.
C1_ParentCompleteness ==
    (/\ CommitReturned
     /\ SnapshotInvariants(objects, frame.stack)
     /\ frame.stack.prev.some =>
            (IsObject(objects, frame.stack.prev.oid, "commit")
             /\ frame.stack.prev.oid > NumBase))
    => \A n \in DOMAIN frame.stack.patches :
           frame.stack.patches[n] \in Ancestors(objects, {result.oid})

\* a commit of a snapshot with patches returned after a fanout reduction: a
\* grouping commit is a parent of the snapshot commit
C1_Witness ==
    /\ CommitReturned
    /\ SnapshotInvariants(objects, frame.stack)
    /\ Cardinality(DOMAIN frame.stack.patches) >= MAX_PARENTS
    /\ \E i \in 1..Len(objects[result.oid].parents) :
          objects[objects[result.oid].parents[i]].message = "parent grouping"

\* C2: a Stack::commit whose prev is the previous snapshot's commit and whose
\* patch commits exist returns a new commit id, not an error.
C2_ChainedCommitsSucceed ==
    (CommitEnded /\ ChainedCall) => result.kind = "ok"

\* C3: decoding the document that encodes a snapshot whose queues are
\* disjoint and cover the patch table succeeds and yields that snapshot.
C3_CodecRoundTrip ==
    (input.encoded /\ QueuesCoverTable(input.of) /\ decoded.kind # "none")
    => decoded = Ok(input.of)

\* C4: no commit written by Stack::commit has more than MAX_PARENTS parents.
C4_FanoutBound ==
    \A c \in (NumBase + 1)..Len(objects) :
        objects[c].type = "commit" => Len(objects[c].parents) <= MAX_PARENTS

\* the commits visited by following the first parent from c, c included
RECURSIVE FirstParentChain(_, _)
FirstParentChain(objs, c) ==
    IF Len(objs[c].parents) = 0 THEN <<c>>
    ELSE <<c>> \o FirstParentChain(objs, objs[c].parents[1])

\* depth(S) of the snapshot of commit c: its prev links
RECURSIVE Depth(_, _)
Depth(objs, c) ==
    IF StackJson(objs, c).prev.null THEN 0
    ELSE 1 + Depth(objs, OidFromStr(StackJson(objs, c).prev.str).oid)

\* the snapshot commit at the end of the prev links of c
RECURSIVE InitializingSnapshot(_, _)
InitializingSnapshot(objs, c) ==
    IF StackJson(objs, c).prev.null THEN c
    ELSE InitializingSnapshot(objs, OidFromStr(StackJson(objs, c).prev.str).oid)

\* C5 as claimed: following the first parent from the latest snapshot commit
\* visits exactly depth(S) + 1 commits and ends at the initializing snapshot.
C5_Linearity ==
    CommitReturned =>
        LET chain == FirstParentChain(objects, result.oid)
        IN  /\ Len(chain) = Depth(objects, result.oid) + 1
            /\ chain[Len(chain)] = InitializingSnapshot(objects, result.oid)

\* C5 as amended: the first-parent chain of a snapshot commit is the commit
\* itself and then depth(S) + 1 simplified commits; it ends at the
\* simplified commit of the initializing snapshot, which has no parents and
\* the initializing snapshot's tree.
C5_LinearityAmended ==
    CommitReturned =>
        LET chain == FirstParentChain(objects, result.oid)
            first == InitializingSnapshot(objects, result.oid)
        IN  /\ Len(chain) = Depth(objects, result.oid) + 2
            /\ chain[1] = result.oid
            /\ chain[Len(chain)] = objects[first].parents[1]
            /\ chain[Len(chain)] # first
            /\ objects[chain[Len(chain)]].tree = objects[first].tree

\* initialize returned: the first-parent chain of its commit is followed
C5_Witness ==
    /\ CommitReturned
    /\ result.op = "initialize"
    /\ Len(FirstParentChain(objects, result.oid)) = 2

\* C6: within Stack::commit a reference changes only in the last store
\* write, which names it, after the tree, the simplified commit and the
\* grouping commits were written; when the call returns an error every
\* reference has the value it had before the call.
C6_AllOrNothing ==
    [][/\ refs' # refs =>
            /\ pc = "parents" /\ pc' = "idle" /\ result'.kind = "ok"
            /\ frame.update_ref.some
            /\ refs'[frame.update_ref.name] = result'.oid
            /\ \A r \in RefNames :
                  r # frame.update_ref.name => refs'[r] = refs[r]
            /\ IsObject(objects, frame.state_tree, "tree")
            /\ IsObject(objects, frame.simplified_parent, "commit")
            /\ ParentCount(frame) <= MAX_PARENTS
            /\ result'.oid = Len(objects') \/ objects' = objects
       /\ (pc # "idle" /\ pc' = "idle" /\ result'.kind # "ok") =>
            refs' = frame.refs0]_vars

\* a commit that names a reference failed after a grouping commit was
\* written: objects were added and the references are those before the call
C6_Witness ==
    /\ pc = "idle" /\ result.kind = "err"
    /\ frame.update_ref.some
    /\ Len(frame.parent_tail) > 0
    /\ Len(objects) > frame.objects0
    /\ refs = frame.refs0

\* the branch an initialize with this argument is about
BranchOf(branch_name) ==
    IF branch_name.some THEN branch_name.name ELSE HEAD.name[3]

\* C7: a successful initialize creates refs/stacks/<branch> whose snapshot is
\* empty, has no prev, and has head equal to the tip of the resolved branch.
C7_InitializeRecordsBranchTip ==
    (pc = "idle" /\ result.op = "initialize" /\ result.kind = "ok") =>
        LET b == BranchOf(result.branch)
        IN  /\ refs[<<"refs", "stacks", b>>] = result.oid
            /\ StackJson(objects, result.oid) =
                   Serialize(StackNew(refs[<<"refs", "heads", b>>]))

\* the step is initialize(branch_name)
InitializeStep(branch_name) ==
    /\ pc = "idle"
    /\ \/ pc' = "idle" /\ result'.op = "initialize" /\ result'.branch = branch_name
       \/ pc' = "load_prev" /\ frame'.op = "initialize" /\ frame'.branch = branch_name

\* C8: initialize fails with StackAlreadyInitialized when the stack reference
\* of the branch exists, and with HeadDetached when no branch is given and
\* HEAD is detached; in both cases no object is written and no reference is
\* created or changed.
C8_InitializeFailsCleanly ==
    [][\A b \in BranchArgs :
          InitializeStep(b) =>
              /\ (/\ b.some => refs[<<"refs", "heads", b.name>>] # 0
                  /\ ~b.some => HEAD.symbolic
                  /\ refs[<<"refs", "stacks", BranchOf(b)>>] # 0)
                 => (/\ pc' = "idle" /\ result'.kind = "err"
                     /\ result'.error = "StGitStackAlreadyInitialized")
              /\ (~b.some /\ ~HEAD.symbolic)
                 => (/\ pc' = "idle" /\ result'.kind = "err"
                     /\ result'.error = "HeadDetached")
              /\ (/\ pc' = "idle"
                  /\ result'.error \in {"StGitStackAlreadyInitialized", "HeadDetached"})
                 => (objects' = objects /\ refs' = refs /\ HEAD' = HEAD)]_vars

\* a second initialize of an initialized branch was refused
C8_Witness ==
    /\ pc = "idle" /\ result.op = "initialize"
    /\ result.error = "StGitStackAlreadyInitialized"
    /\ refs[<<"refs", "stacks", BranchOf(result.branch)>>] # 0
    /\ Len(objects) > NumBase

\* a string that Oid::from_str rejects is among the ids of the document
MalformedId(doc) ==
    \/ ~doc.prev.null /\ ~OidFromStr(doc.prev.str).ok
    \/ ~OidFromStr(doc.head).ok
    \/ \E n \in DOMAIN doc.patches : ~OidFromStr(doc.patches[n].oid).ok

\* C9: decoding a version-5 document with a malformed id returns an error
\* value; the decoder does not abort and returns no snapshot.
C9_MalformedIdIsError ==
    (/\ decoded.kind # "none"
     /\ input.doc.version = [isString |-> FALSE, num |-> 5]
     /\ MalformedId(input.doc))
    => decoded.kind = "err"

\* the patches of s that the previous snapshot has with the same commit id
SharedPatches(objs, s) ==
    {p \in DOMAIN s.patches :
        /\ p \in DOMAIN StackJson(objs, s.prev.oid).patches
        /\ StackJson(objs, s.prev.oid).patches[p].oid = OidToString(s.patches[p])}

\* C10: when a snapshot is committed with prev set, the entry patches/p of
\* every patch with the same name and commit id in the previous snapshot is
\* the entry of the previous snapshot's tree.
C10_PatchMetaReuse ==
    (CommitEnded /\ ChainedCall /\ SharedPatches(objects, frame.stack) # {})
    => /\ result.kind = "ok"
       /\ \A p \in SharedPatches(objects, frame.stack) :
             /\ get_path(objects, objects[result.oid].tree, p) # 0
             /\ get_path(objects, objects[result.oid].tree, p) =
                    get_path(objects, objects[frame.stack.prev.oid].tree, p)

\* C11: every snapshot a decode of a stack.json document produces has
\* applied, unapplied and hidden without a repeated name, pairwise
\* disjoint, and their names are exactly the keys of patches.
C11_DecodedDisjointness ==
    decoded.kind = "ok" => QueuesCoverTable(decoded.stack)

====
